---- MODULE Spec2Model ----
(***************************************************************************)
(* Model of quicksight_export.py: a sequential script that lists the       *)
(* QuickSight resources of an account, fetches the definition of each one  *)
(* and saves lists and definitions as JSON files under definitions/.       *)
(*                                                                         *)
(* The script is one thread of control; pc is its position, and there is   *)
(* one action per call the driver makes (lister, list save, fetcher,       *)
(* definition save, finish_export).  The remote service and the file       *)
(* system are the environment: what a call returns is chosen by \E.        *)
(* Strings that the code takes apart (resource names, the --type value,    *)
(* file names) are sequences of one-character strings.                     *)
(***************************************************************************)
EXTENDS Integers, Sequences, FiniteSets, TLC

(* ---------------------------- bounds ----------------------------------- *)

\* The account holds at most MaxItems resources over all types.
MaxItems == 2

\* At most MaxFaults file-system calls fail, over all runs.
MaxFaults == 1

(* --------------------------- constants --------------------------------- *)

\* Keys of the global counters, in the order of the default resource_types.
AllTypes == <<"data_sets", "analyses", "dashboards">>

Types == {AllTypes[i] : i \in 1..Len(AllTypes)}

\* Resource display names ('Name' of a summary) the service may hold.
Names ==
    { <<"a">>, <<"/", "/">>, <<"-", "-", "-", "-">> }

\* Values of --type: absent (None), or a string.
Absent == [given |-> FALSE, value |-> <<>>]

Given(s) == [given |-> TRUE, value |-> s]

CliTypes ==
    { Absent, Given(<<>>), Given(<<"x">>), Given(<<"a">>), Given(<<"a", "a">>),
      Given(<<"b", "d">>), Given(<<"d", "b">>), Given(<<"b", "a", "d">>) }

\* Outcomes of a describe call: it raises, it returns a payload that holds
\* an 'Error' object, or it returns the definition.
DescribeOutcomes == {"raise", "embedded", "ok"}

\* A call that returned nothing (Python None), and a response.  A response
\* has the key 'Error' or not, and a body: the summaries of a list response,
\* the one definition of a describe response.
None == [absent |-> TRUE, Error |-> FALSE, body |-> <<>>]

Response(body) == [absent |-> FALSE, Error |-> FALSE, body |-> body]

ErrorResponse == [absent |-> FALSE, Error |-> TRUE, body |-> <<>>]

\* Python truthiness of a call's result: None is falsy, a boto3 response
\* (a dict that always holds ResponseMetadata) is truthy.
Truthy(r) == ~r.absent

\* Content of a file: the JSON document written, or what open(..., 'wt')
\* followed by a failed dump leaves behind.
Written(json_data) == [complete |-> TRUE, json |-> json_data]

Truncated == [complete |-> FALSE, json |-> None]

ZeroCounters == [t \in Types |-> 0]

(* ------------------------- pure functions ------------------------------ *)

RECURSIVE str_replace(_, _, _)
\* Python's s.replace(old, new) for a one-character old: every occurrence.
str_replace(s, old, new) ==
    IF s = <<>> THEN <<>>
    ELSE (IF Head(s) = old THEN new ELSE <<Head(s)>>)
            \o str_replace(Tail(s), old, new)

RECURSIVE str_replace_first(_, _, _)
\* s.replace(old, new, 1): the first occurrence only.
str_replace_first(s, old, new) ==
    IF s = <<>> THEN <<>>
    ELSE IF Head(s) = old THEN new \o Tail(s)
    ELSE <<Head(s)>> \o str_replace_first(Tail(s), old, new)

\* Mutant of Replace: only the first '/' is replaced.
ReplaceFirst(name) == str_replace_first(name, "/", <<"-", "-">>)

\* resource['Name'].replace('/','--')
Replace(name) == str_replace(name, "/", <<"-", "-">>)

Has(c, s) == \E i \in 1..Len(s) : s[i] = c

RECURSIVE InOrder(_, _)
\* The types named by the letters of s, in the order of the letters, each
\* once; seen is what came before.
InOrder(s, seen) ==
    IF s = <<>> THEN <<>>
    ELSE LET t == IF Head(s) = "d" THEN <<"data_sets">>
                  ELSE IF Head(s) = "a" THEN <<"analyses">>
                  ELSE IF Head(s) = "b" THEN <<"dashboards">>
                  ELSE <<>>
             new == IF t # <<>> /\ ~Has(t[1], seen) THEN t ELSE <<>>
         IN  new \o InOrder(Tail(s), seen \o new)

\* Mutant of SelectTypes: the types are appended in the order of the letters.
SelectTypesInOrder(type) ==
    IF ~type.given \/ type.value = <<>> THEN AllTypes ELSE InOrder(type.value, <<>>)

\* resource_types as built from --type.
SelectTypes(type) ==
    IF ~type.given \/ type.value = <<>>
    THEN AllTypes
    ELSE (IF Has("d", type.value) THEN <<"data_sets">> ELSE <<>>)
         \o (IF Has("a", type.value) THEN <<"analyses">> ELSE <<>>)
         \o (IF Has("b", type.value) THEN <<"dashboards">> ELSE <<>>)

\* The file name write_json_file builds, relative to definitions/<type>/.
FileName(resource_type, name, file_type) ==
    IF file_type = "list" THEN <<resource_type, "-list.json">>
    ELSE IF file_type = "definition" THEN name \o <<"-", resource_type, ".json">>
    ELSE name

Path(resource_type, file) == [dir |-> resource_type, file |-> file]

Put(files, path, content) ==
    [p \in DOMAIN files \cup {path} |-> IF p = path THEN content ELSE files[p]]

\* Mutant of Dump: the file is opened for appending.
DumpAppend(old, json_data) ==
    Written([json_data EXCEPT !.body = old.json.body \o @])

\* open(filename, 'wt') truncates, json.dump writes the document.
Dump(old, json_data) == Written(json_data)

\* successes after a save that raised nothing.
Saved(successes, resource_type, file_type) ==
    IF file_type = "definition"
    THEN [successes EXCEPT ![resource_type] = @ + 1]
    ELSE successes

\* Mutant of NotSaved: a failed list save is counted too.
NotSavedAny(failures, resource_type, file_type) ==
    [failures EXCEPT ![resource_type] = @ + 1]

\* failures after a save that raised.
NotSaved(failures, resource_type, file_type) ==
    IF file_type = "definition"
    THEN [failures EXCEPT ![resource_type] = @ + 1]
    ELSE failures

\* Mutant of finish_export: the summary is printed, the process goes on.
finish_export_returns(w) ==
    [w EXCEPT !.summaries = Append(@, [successes |-> w.successes,
                                       failures |-> w.failures])]

\* finish_export: the summary is logged and printed, sys.exit() ends the
\* process.  w is the part of the state write_json_file can touch.
finish_export(w) ==
    [w EXCEPT !.summaries = Append(@, [successes |-> w.successes,
                                       failures |-> w.failures]),
              !.exited = TRUE]

\* write_json_file.  mk is the outcome of the directory step ("exists":
\* os.path.exists is true; "created": makedirs succeeds; "error": makedirs
\* raises), io the outcome of the save ("ok"; "open_error": open raises;
\* "dump_error": the file is open and truncated when the error comes).
write_json_file(resource_type, name, file_type, json_data, mk, io, w) ==
    LET w1 == IF mk = "exists" THEN w
              ELSE IF mk = "created"
                   THEN [w EXCEPT !.dirs = @ \cup {resource_type}]
                   ELSE finish_export(w)
        path == Path(resource_type, FileName(resource_type, name, file_type))
        old == IF path \in DOMAIN w1.files THEN w1.files[path] ELSE Truncated
    IN  IF w1.exited THEN w1
        ELSE IF io = "ok"
        THEN [w1 EXCEPT !.files = Put(@, path, Dump(old, json_data)),
                        !.successes = Saved(@, resource_type, file_type)]
        ELSE [w1 EXCEPT !.files = IF io = "dump_error"
                                  THEN Put(@, path, Truncated) ELSE @,
                        !.failures = NotSaved(@, resource_type, file_type)]

\* Mutant of list_quicksight_resources: a failed call yields an empty
\* response instead of None.
list_returns_empty(resource_type, answer) ==
    IF answer.raised THEN Response(<<>>) ELSE Response(answer.summaries)

\* list_quicksight_resources.  answer is what the list call does: it raises,
\* or it returns the summaries of the account's resources of that type.
list_quicksight_resources(resource_type, answer) ==
    IF answer.raised THEN None ELSE Response(answer.summaries)

\* failures after a describe call that raised.
CallFailed(failures, resource_type) ==
    [failures EXCEPT ![resource_type] = @ + 1]

\* Mutant of get_quicksight_resource: the except branch counts the failure
\* and does not return: the caller gets something that is not None.
get_resource_no_return(resource_type, resource, outcome, failures) ==
    IF outcome = "raise"
    THEN [result |-> Response(<<resource>>),
          failures |-> CallFailed(failures, resource_type)]
    ELSE IF outcome = "embedded"
    THEN [result |-> None, failures |-> failures]
    ELSE [result |-> Response(<<resource>>), failures |-> failures]

\* get_quicksight_resource.  Returns the result and the failures counter.
get_quicksight_resource(resource_type, resource, outcome, failures) ==
    IF outcome = "raise"
    THEN [result |-> None, failures |-> CallFailed(failures, resource_type)]
    ELSE LET response == IF outcome = "embedded" THEN ErrorResponse
                         ELSE Response(<<resource>>)
         IN  IF response.Error
             THEN [result |-> None, failures |-> failures]
             ELSE [result |-> response, failures |-> failures]

(* ------------------------------ state ---------------------------------- *)

VARIABLES
    cli_type,        \* cli_args.type
    resource_types,  \* the types the driver iterates over
    ti,              \* position of the type loop in resource_types
    pc,              \* position of the script
    list_json,       \* result of the lister for the current type
    index,           \* position of the item loop in the list (from 1)
    resource_json,   \* result of the fetcher for the current item
    successes,       \* global counter
    failures,        \* global counter
    files,           \* file system: the files under definitions/
    dirs,            \* file system: the directories definitions/<type>/
    summaries,       \* the summaries printed by this process
    remote,          \* what the service has answered so far
    run,             \* number of the invocation of the script
    snap,            \* files and counters at the end of the first run
    order,           \* history: the types the lister was called for
    described,       \* history: describe calls made, per type
    opened,          \* history: the files this run opened for writing
    listSave,        \* history: outcome of the list save, per type
    aborted,         \* history: a directory creation failed in this run
    faults           \* history: file-system calls that failed, over all runs

vars ==
    << cli_type, resource_types, ti, pc, list_json, index, resource_json,
       successes, failures, files, dirs, summaries, remote, run, snap,
       order, described, opened, listSave, aborted, faults >>

Unknown == [known |-> FALSE, raised |-> FALSE, names |-> <<>>, outcomes |-> <<>>]

\* Number of resources the service has shown so far.
Shown == LET n(t) == Len(remote[t].names)
         IN  n("data_sets") + n("analyses") + n("dashboards")

NameLists(max) == UNION {[1..n -> Names] : n \in 0..max}

\* The summaries of a list response: ids are the positions.
Summaries(names) == [i \in 1..Len(names) |-> [Id |-> i, Name |-> names[i]]]

\* The answers the list call for t can give: the one it gave before, or,
\* the first time, any.
ListAnswers(t) ==
    IF remote[t].known
    THEN {[raised |-> remote[t].raised, names |-> remote[t].names]}
    ELSE {[raised |-> TRUE, names |-> <<>>]}
         \cup {[raised |-> FALSE, names |-> ns] : ns \in NameLists(MaxItems - Shown)}

\* The outcomes the describe call for item i of t can have.
DescribeAnswers(t, i) ==
    IF i <= Len(remote[t].outcomes)
    THEN {remote[t].outcomes[i]}
    ELSE DescribeOutcomes

\* The outcomes of the directory step for definitions/<t>/.
MkOutcomes(t) ==
    (IF t \in dirs THEN {"exists"} ELSE {"created"})
        \cup (IF faults < MaxFaults THEN {"error"} ELSE {})

\* The outcomes of the save, after a directory step with outcome mk.
IoOutcomes(mk) ==
    {"ok"} \cup (IF mk # "error" /\ faults < MaxFaults
                 THEN {"open_error", "dump_error"} ELSE {})

Failed(mk, io) == IF mk = "error" \/ io # "ok" THEN 1 ELSE 0

World ==
    [successes |-> successes, failures |-> failures, files |-> files,
     dirs |-> dirs, summaries |-> summaries, exited |-> FALSE]

Init ==
    /\ cli_type \in CliTypes
    /\ resource_types = SelectTypes(cli_type)
    /\ ti = 1
    /\ pc = "list"
    /\ list_json = None
    /\ index = 0
    /\ resource_json = None
    /\ successes = ZeroCounters
    /\ failures = ZeroCounters
    /\ summaries = <<>>
    /\ order = <<>>
    /\ described = ZeroCounters
    /\ opened = {}
    /\ listSave = [t \in Types |-> "none"]
    /\ aborted = FALSE
    /\ files = <<>>
    /\ dirs = {}
    /\ remote = [t \in Types |-> Unknown]
    /\ run = 1
    /\ snap = [taken |-> FALSE, files |-> <<>>, successes |-> ZeroCounters,
               failures |-> ZeroCounters, aborted |-> FALSE, faults |-> 0]
    /\ faults = 0

(* ----------------------------- actions --------------------------------- *)

CurrentType == resource_types[ti]

\* for resource_type in resource_types: list_quicksight_resources(...);
\* if not list_json: continue
ListResources ==
    /\ pc = "list"
    /\ ti <= Len(resource_types)
    /\ \E answer \in ListAnswers(CurrentType) :
        LET t == CurrentType
            r == list_quicksight_resources(t,
                    [raised |-> answer.raised, summaries |-> Summaries(answer.names)])
        IN  /\ remote' = [remote EXCEPT ![t] =
                    [known |-> TRUE, raised |-> answer.raised,
                     names |-> answer.names, outcomes |-> @.outcomes]]
            /\ list_json' = r
            /\ order' = Append(order, t)
            /\ IF Truthy(r)
               THEN pc' = "save_list" /\ ti' = ti
               ELSE pc' = "list" /\ ti' = ti + 1
    /\ UNCHANGED << cli_type, resource_types, index, resource_json, successes,
                    failures, files, dirs, summaries, run, snap, described,
                    opened, listSave, aborted, faults >>

\* What write_json_file leaves behind, and where the driver goes next.
AfterWrite(w, next_pc, next_ti, next_index) ==
    /\ successes' = w.successes
    /\ failures' = w.failures
    /\ files' = w.files
    /\ dirs' = w.dirs
    /\ summaries' = w.summaries
    /\ IF w.exited
       THEN pc' = "exited" /\ ti' = ti /\ index' = index
       ELSE pc' = next_pc /\ ti' = next_ti /\ index' = next_index

\* write_json_file(resource_type, '', 'list', list_json), then the start of
\* the item loop.
SaveList ==
    /\ pc = "save_list"
    /\ \E mk \in MkOutcomes(CurrentType) : \E io \in IoOutcomes(mk) :
        LET t == CurrentType
            w == write_json_file(t, <<>>, "list", list_json, mk, io, World)
            resources == list_json.body
        IN  /\ IF Len(resources) = 0
               THEN AfterWrite(w, "list", ti + 1, index)
               ELSE AfterWrite(w, "fetch", ti, 1)
            /\ opened' = IF w.exited \/ io = "open_error" THEN opened
                         ELSE opened \cup {[type |-> t, kind |-> "list", name |-> <<>>,
                                            file |-> FileName(t, <<>>, "list")]}
            /\ listSave' = [listSave EXCEPT ![t] = IF mk = "error" THEN "abort" ELSE io]
            /\ aborted' = (mk = "error")
            /\ faults' = faults + Failed(mk, io)
    /\ UNCHANGED << cli_type, resource_types, list_json, resource_json, remote,
                    run, snap, order, described >>

\* The end of one pass of the item loop.
NextItem(w) ==
    IF index < Len(list_json.body)
    THEN AfterWrite(w, "fetch", ti, index + 1)
    ELSE AfterWrite(w, "list", ti + 1, index)

\* get_quicksight_resource(...); if resource_json: ... (else the next item)
GetResource ==
    /\ pc = "fetch"
    /\ \E outcome \in DescribeAnswers(CurrentType, index) :
        LET t == CurrentType
            resource == list_json.body[index]
            got == get_quicksight_resource(t, resource, outcome, failures)
        IN  /\ remote' = [remote EXCEPT ![t].outcomes =
                    IF index <= Len(@) THEN @ ELSE Append(@, outcome)]
            /\ resource_json' = got.result
            /\ described' = [described EXCEPT ![t] = @ + 1]
            /\ IF Truthy(got.result)
               THEN /\ pc' = "save_def"
                    /\ failures' = got.failures
                    /\ UNCHANGED << ti, index, successes, files, dirs, summaries >>
               ELSE NextItem([World EXCEPT !.failures = got.failures])
    /\ UNCHANGED << cli_type, resource_types, list_json, run, snap, order,
                    opened, listSave, aborted, faults >>

\* filename = resource['Name'].replace('/','--');
\* write_json_file(resource_type, filename, 'definition', resource_json)
SaveDefinition ==
    /\ pc = "save_def"
    /\ \E mk \in MkOutcomes(CurrentType) : \E io \in IoOutcomes(mk) :
        LET t == CurrentType
            resource == list_json.body[index]
            filename == Replace(resource.Name)
            w == write_json_file(t, filename, "definition", resource_json, mk, io,
                                 World)
        IN  /\ NextItem(w)
            /\ opened' = IF w.exited \/ io = "open_error" THEN opened
                         ELSE opened \cup {[type |-> t, kind |-> "definition",
                                            name |-> resource.Name,
                                            file |-> FileName(t, filename, "definition")]}
            /\ aborted' = (mk = "error")
            /\ faults' = faults + Failed(mk, io)
    /\ UNCHANGED << cli_type, resource_types, list_json, resource_json, remote,
                    run, snap, order, described, listSave >>

\* finish_export() as the last statement of the script: the process ends
\* there.
Finish ==
    /\ pc = "list"
    /\ ti > Len(resource_types)
    /\ summaries' = finish_export(World).summaries
    /\ pc' = "exited"
    /\ UNCHANGED << cli_type, resource_types, ti, list_json, index,
                    resource_json, successes, failures, files, dirs, remote, run,
                    snap, order, described, opened, listSave, aborted, faults >>

Next ==
    \/ ListResources
    \/ SaveList
    \/ GetResource
    \/ SaveDefinition
    \/ Finish

Spec == Init /\ [][Next]_vars

\* The operator invokes the script a second time, with the same arguments,
\* in the scenario of two runs without file-system errors: the first run
\* saw none, and none happens in the second.  A new process starts: the
\* module-level code runs again, the file system is what the first run left.
Restart ==
    /\ pc = "exited"
    /\ run = 1
    /\ faults = 0
    /\ run' = 2
    /\ snap' = [taken |-> TRUE, files |-> files, successes |-> successes,
                failures |-> failures, aborted |-> aborted, faults |-> faults]
    /\ resource_types' = SelectTypes(cli_type)
    /\ ti' = 1
    /\ pc' = "list"
    /\ list_json' = None
    /\ index' = 0
    /\ resource_json' = None
    /\ successes' = ZeroCounters
    /\ failures' = ZeroCounters
    /\ summaries' = <<>>
    /\ order' = <<>>
    /\ described' = ZeroCounters
    /\ opened' = {}
    /\ listSave' = [t \in Types |-> "none"]
    /\ aborted' = FALSE
    /\ faults' = MaxFaults
    /\ UNCHANGED << cli_type, files, dirs, remote >>

NextTwice ==
    \/ Next
    \/ Restart

SpecTwice == Init /\ [][NextTwice]_vars

(* ----------------------------- properties ------------------------------ *)

\* Items the service listed for t (0 when the list call failed or was not made).
Listed(t) == Len(remote[t].names)

\* The list call for t was made in this run and returned a list.
ListedOk(t) == Has(t, order) /\ remote[t].known /\ ~remote[t].raised

\* The list call for t was made in this run and raised.
ListFailed(t) == Has(t, order) /\ remote[t].known /\ remote[t].raised

\* The run reached the final summary, no directory creation having failed.
Completed == pc = "exited" /\ ~aborted

\* The definition files under definitions/<t>/.
DefinitionFiles(t) ==
    {p \in DOMAIN files : p.dir = t /\ p.file # FileName(t, <<>>, "list")}

SlashesBefore(name, i) == Cardinality({j \in 1..(i - 1) : name[j] = "/"})

\* C1: in every state and for every type t, successes[t] + failures[t] is at
\* most the number of items of t whose processing is over, which is at most
\* the number of items started and of items listed: an item counts at most
\* once (while item i waits for its save, the sum is at most i - 1).
C1_CountedAtMostOnce ==
    \A t \in Types :
        LET waiting == IF pc = "save_def" /\ CurrentType = t THEN 1 ELSE 0
        IN  /\ successes[t] + failures[t] + waiting <= described[t]
            /\ described[t] <= Listed(t)

C1_Witness ==
    \E t \in Types :
        /\ described[t] = 2
        /\ remote[t].outcomes[1] = "raise"
        /\ failures[t] = 1
        /\ successes[t] = 1

\* C2 (as claimed): a describe call that returns a payload with an embedded
\* error adds exactly 1 to failures of the type, leaves successes alone,
\* returns nothing and writes no file.
C2_EmbeddedErrorCounted ==
    [][ (pc = "fetch" /\ remote'[CurrentType].outcomes[index] = "embedded")
          => /\ failures' = [failures EXCEPT ![CurrentType] = @ + 1]
             /\ successes' = successes
             /\ resource_json' = None
             /\ files' = files ]_vars

\* C3 (as claimed): at the final summary of a run without directory-creation
\* abort, successes[t] + failures[t] is the number of items listed, for
\* every type whose list call succeeded.
C3_EveryItemCounted ==
    Completed =>
        \A t \in Types : ListedOk(t) => successes[t] + failures[t] = Listed(t)

\* C4: when the list call for t fails, nothing is written under
\* definitions/<t>/ (no directory, no list file, no definition file), no
\* describe call is made for t, the counters of t stay 0, and the driver goes
\* on with the next requested type: the lister is called for it, or, t being
\* the last one, the run ends with the summary.
C4_FailedListSkipsType ==
    \A k \in 1..Len(order) :
        LET t == order[k]
        IN  ListFailed(t) =>
              /\ described[t] = 0
              /\ successes[t] = 0 /\ failures[t] = 0
              /\ t \notin dirs
              /\ \A p \in DOMAIN files : p.dir # t
              /\ \A o \in opened : o.type # t
              /\ listSave[t] = "none"
              /\ \/ k < Len(order) /\ order[k + 1] = resource_types[k + 1]
                 \/ k = Len(order) /\ pc = "list" /\ ti = k + 1
                 \/ k = Len(order) /\ Completed /\ k = Len(resource_types)

C4_Witness ==
    /\ ListFailed("analyses")
    /\ ListedOk("dashboards")
    /\ described["dashboards"] = 1
    /\ successes["dashboards"] = 1

\* C5: when directory creation fails in write_json_file, that very step
\* prints the summary of the counters as they are and ends the process,
\* changing no counter and no file and making no remote call; the summary
\* is the only one of the run, and nothing happens afterwards.
C5_DirectoryFailureEndsRun ==
    /\ [](aborted => /\ pc = "exited"
                     /\ summaries = << [successes |-> successes,
                                        failures |-> failures] >>)
    /\ [][ (aborted' /\ ~aborted)
             => /\ pc \in {"save_list", "save_def"}
                /\ successes' = successes /\ failures' = failures
                /\ files' = files /\ dirs' = dirs /\ opened' = opened
                /\ order' = order /\ described' = described ]_vars
    /\ [][ (aborted /\ run' = run) => UNCHANGED vars ]_vars

C5_Witness ==
    /\ aborted
    /\ \E t \in Types : successes[t] = 1 /\ described[t] = 2 /\ index = 2

\* C6 (as claimed, for the runs in which no file-system call fails): at the
\* end of a run that started with an empty definitions/ directory,
\* definitions/<t>/ holds as many definition files as successes[t] says.
C6_OneFilePerSuccess ==
    (pc = "exited" /\ run = 1 /\ faults = 0) =>
        \A t \in Types : Cardinality(DefinitionFiles(t)) = successes[t]

\* C7: the name of every definition file the driver opens, and of every file
\* under definitions/<t>/, holds no '/'; it is the resource name with each
\* '/' turned into '--' and every other character kept in place, followed by
\* -<type>.json.
C7_NoSlashInFileName ==
    /\ \A p \in DOMAIN files : ~Has("/", p.file)
    /\ \A o \in opened :
         o.kind = "definition" =>
           LET n == o.name
               f == o.file
               m == Len(n) + SlashesBefore(n, Len(n) + 1)
           IN  /\ ~Has("/", f)
               /\ Len(f) = m + 3
               /\ SubSeq(f, m + 1, m + 3) = <<"-", o.type, ".json">>
               /\ \A i \in 1..Len(n) :
                    LET at == i + SlashesBefore(n, i)
                    IN  IF n[i] = "/" THEN f[at] = "-" /\ f[at + 1] = "-"
                        ELSE f[at] = n[i]

C7_Witness ==
    \E o \in opened :
        /\ o.kind = "definition"
        /\ o.name = <<"/", "/">>
        /\ Path(o.type, o.file) \in DOMAIN files
        /\ successes[o.type] = 1

\* The types the letters of --type name, in the order of the letters (all
\* three, in the default order, when --type is absent or empty).
CallerOrder ==
    IF cli_type.given /\ cli_type.value # <<>>
    THEN InOrder(cli_type.value, <<>>)
    ELSE AllTypes

\* The selected types in the order data_sets, analyses, dashboards; every
\* type is selected when --type is absent or the empty string.
Selected(t) ==
    \/ ~cli_type.given
    \/ cli_type.value = <<>>
    \/ t = "data_sets" /\ Has("d", cli_type.value)
    \/ t = "analyses" /\ Has("a", cli_type.value)
    \/ t = "dashboards" /\ Has("b", cli_type.value)

FixedOrder == SelectSeq(AllTypes, Selected)

IsPrefix(s, u) == Len(s) <= Len(u) /\ SubSeq(u, 1, Len(s)) = s

\* C8 (as claimed): the lister is called for the types in the order of the
\* letters of --type, each once.
C8_CallerOrder ==
    /\ IsPrefix(order, CallerOrder)
    /\ Completed => order = CallerOrder

\* C8 (amended): the lister is called for the selected types in the order
\* data_sets, analyses, dashboards, whatever the order of the letters in
\* --type, each selected type once; all three are selected when --type is
\* absent or empty.
C8_FixedOrder ==
    /\ IsPrefix(order, FixedOrder)
    /\ Completed => order = FixedOrder
    /\ \A i, j \in 1..Len(order) : order[i] = order[j] => i = j

C8_Witness ==
    /\ cli_type = Given(<<"b", "a", "d">>)
    /\ Completed
    /\ order = <<"data_sets", "analyses", "dashboards">>

\* C9: a second run against the unchanged service, no file-system call
\* failing in either run, ends with the files (names and contents) and the
\* counters the first run ended with.
C9_SecondRunChangesNothing ==
    (run = 2 /\ pc = "exited") =>
        /\ snap.taken /\ snap.faults = 0 /\ ~aborted
        /\ files = snap.files
        /\ successes = snap.successes
        /\ failures = snap.failures

C9_Witness ==
    /\ run = 2 /\ pc = "exited"
    /\ \E t \in Types :
         /\ successes[t] = 2
         /\ Cardinality(DefinitionFiles(t)) = 2
    /\ \E t \in Types : ListFailed(t)

\* C10: saving the list file changes no counter, whether the save succeeds
\* or an I/O error occurs, and unless directory creation failed the driver
\* goes on to the first item of the list (to the next type when the list is
\* empty); a run that reaches the final summary has made a describe call for
\* every item of every list it retrieved, the lists whose save failed
\* included.
C10_ListSaveNotCounted ==
    /\ [][ pc = "save_list"
             => /\ successes' = successes /\ failures' = failures
                /\ listSave'[CurrentType] # "abort"
                     => IF Len(list_json.body) > 0
                        THEN pc' = "fetch" /\ index' = 1 /\ ti' = ti
                        ELSE pc' = "list" /\ ti' = ti + 1 ]_vars
    /\ [](Completed =>
            \A t \in Types :
                listSave[t] \in {"ok", "open_error", "dump_error"}
                    => described[t] = Listed(t))

C10_Witness ==
    /\ Completed
    /\ \E t \in Types :
         /\ listSave[t] = "open_error"
         /\ described[t] = 2
         /\ successes[t] = 2

====
